---- MODULE Spec2Model ----
(***************************************************************************)
(* Model of send_btc.py: main() reads and validates the recipient sheet    *)
(* (read_excel_data), prepares the recipient list, and runs                *)
(* send_batch_transaction: fetch UTXOs, add inputs, add outputs, compute   *)
(* fee and change, sign every input, verify, ask for confirmation and      *)
(* broadcast.  Every raise in the source ends the run in pc = "failed".    *)
(***************************************************************************)
EXTENDS Integers, Sequences, FiniteSets, TLC

VARIABLES
    pc,               \* position of the single execution path
    err,              \* which raise ended the run ("none" while running)
    rawRecords,       \* the rows of the sheet as read by pd.read_excel
    df,               \* the frame read_excel_data returned
    recipients,       \* main(): the list handed to send_batch_transaction
    fee_rate,         \* config fee_rate, a rational <<num, den>>
    min_utxo,         \* config min_utxo
    wallet_address,   \* address derived from the key
    fetchStatus,      \* status code of GET /address/{a}/utxo (0: not sent)
    apiUtxos,         \* the provider's JSON array
    utxos,            \* filtered_utxos returned by get_utxos_from_api
    inputs,           \* t.inputs, in the order they were added
    total_input,
    outputs,          \* t.outputs, in the order they were added
    total_output,
    nRecipientOutputs,\* number of records consumed by the output loop
    tx_size,
    fee,
    change,
    signed,           \* indices handed to t.sign, in call order
    verifyResult,     \* "none" | "ok" | "bad"
    broadcastCount,   \* number of POST /tx requests issued
    broadcastStatus,  \* status code of the POST (0: not sent)
    result            \* "none" | "txid" | "cancelled"

vars == <<pc, err, rawRecords, df, recipients, fee_rate, min_utxo,
          wallet_address, fetchStatus, apiUtxos, utxos, inputs, total_input,
          outputs, total_output, nRecipientOutputs, tx_size, fee, change,
          signed, verifyResult, broadcastCount, broadcastStatus, result>>

-----------------------------------------------------------------------------
(* Bounds of the model.                                                    *)

MaxRecords == 2
MaxUtxos == 2

-----------------------------------------------------------------------------
(* Strings are sequences of characters so that strip() and startswith()    *)
(* are computed, not assumed.                                              *)

P2WPKH_PREFIX == <<"b", "c", "1", "q">>

StartsWith(s, p) == Len(s) >= Len(p) /\ SubSeq(s, 1, Len(p)) = p

RECURSIVE LStrip(_)
LStrip(s) == IF s # <<>> /\ Head(s) = " " THEN LStrip(Tail(s)) ELSE s

RECURSIVE RStrip(_)
RStrip(s) ==
    IF s # <<>> /\ s[Len(s)] = " " THEN RStrip(SubSeq(s, 1, Len(s) - 1)) ELSE s

Strip(s) == RStrip(LStrip(s))

\* Address cells of the sheet: a native-segwit address, the same with
\* surrounding blanks, and a legacy address.
AddrSegwit == <<"b", "c", "1", "q", "x">>
AddrPadded == <<" ", "b", "c", "1", "q", "x", " ">>
AddrLegacy == <<"1", "A", "x">>
AddressCells == {AddrSegwit, AddrPadded, AddrLegacy}

\* The funding address: pubkeyhash_to_addr_bech32 is a library call; both a
\* P2WPKH result and any other result are considered.
WalletSegwit == <<"b", "c", "1", "q", "w">>
WalletOther == <<"b", "c", "1", "p", "w">>

-----------------------------------------------------------------------------
(* Amount cells.  A numeric cell is the rational num/den (den = 1 for an   *)
(* integer cell, den = 2 for a cell such as 546.5); a "nan" cell is an     *)
(* empty cell.  int() truncates toward zero and raises on NaN.             *)

Num(n, d) == [kind |-> "num", num |-> n, den |-> d]
NaN == [kind |-> "nan", num |-> 0, den |-> 1]

AmountCells ==
    {Num(0, 1), Num(545, 1), Num(546, 1), Num(915, 1), Num(20000, 1),
     Num(30000, 1), Num(1093, 2), NaN}

IsIntegerCell(c) == c.kind = "num" /\ c.num % c.den = 0

IntRaises(c) == c.kind = "nan"

PyInt(c) ==
    IF c.num >= 0 THEN c.num \div c.den ELSE -((-c.num) \div c.den)

Row(a, c) == [address |-> a, amount |-> c]

\* The rows a sheet may hold: every amount cell with a well-formed address,
\* and the other address cells with amounts on both sides of the dust limit.
RawRecordSet ==
    {Row(AddrSegwit, c) : c \in AmountCells}
        \cup {Row(AddrPadded, Num(546, 1)), Row(AddrLegacy, Num(546, 1)),
              Row(AddrLegacy, Num(545, 1))}

RECURSIVE SeqsUpTo(_, _)
SeqsUpTo(S, n) ==
    IF n = 0 THEN {<<>>}
    ELSE LET shorter == SeqsUpTo(S, n - 1)
         IN  shorter \cup {Append(s, x) : s \in {t \in shorter : Len(t) = n - 1}, x \in S}

-----------------------------------------------------------------------------
(* read_excel_data: the per-row checks of the validation loop.             *)

DUST_LIMIT == 546

RowAddressOk(row) == StartsWith(Strip(row.address), P2WPKH_PREFIX)

RowAmountOk(row) ==
    /\ ~IntRaises(row.amount)
    /\ ~(PyInt(row.amount) <= 0)
    /\ ~(PyInt(row.amount) < DUST_LIMIT)

RowOk(row) == RowAddressOk(row) /\ RowAmountOk(row)

AllRowsOk(rows) == \A i \in 1..Len(rows) : RowOk(rows[i])

\* df['amount'].astype(int): the returned frame keeps the address column as
\* read and carries integer amounts.
AsTypeInt(rows) ==
    [i \in 1..Len(rows) |->
        [address |-> rows[i].address, amount |-> PyInt(rows[i].amount)]]

\* main(): recipients.append({'address': str(..).strip(), 'amount': int(..)})
PrepareRecipients(frame) ==
    [i \in 1..Len(frame) |->
        [address |-> Strip(frame[i].address), amount |-> frame[i].amount]]

-----------------------------------------------------------------------------
(* get_utxos_from_api                                                      *)

\* def get_utxos_from_api(address, min_utxo=1000)
MIN_UTXO == 1000

HTTP_OK == 200
HTTP_ERROR == 500

UtxoValues == {MIN_UTXO - 1, MIN_UTXO, 100000}

\* A provider entry: id is its position in the provider's array (it stands
\* for txid:vout), voutInt tells whether 'vout' is a JSON integer.
ApiEntry == [value : UtxoValues, voutInt : {TRUE}]
                \cup {[value |-> MIN_UTXO, voutInt |-> FALSE]}

WithIds(s) ==
    [i \in 1..Len(s) |-> [id |-> i, value |-> s[i].value, voutInt |-> s[i].voutInt]]

\* The filter with the threshold itself excluded.
RECURSIVE FilterUtxos_Strict(_, _)
FilterUtxos_Strict(list, threshold) ==
    IF list = <<>> THEN <<>>
    ELSE IF Head(list).value > threshold
         THEN <<Head(list)>> \o FilterUtxos_Strict(Tail(list), threshold)
         ELSE FilterUtxos_Strict(Tail(list), threshold)

RECURSIVE FilterUtxos(_, _)
FilterUtxos(list, threshold) ==
    IF list = <<>> THEN <<>>
    ELSE IF Head(list).value >= threshold
         THEN <<Head(list)>> \o FilterUtxos(Tail(list), threshold)
         ELSE FilterUtxos(Tail(list), threshold)

-----------------------------------------------------------------------------
(* Transaction.raw_hex() of an unsigned segwit transaction: version,       *)
(* marker and flag, the two counts and the locktime; per input the         *)
(* outpoint, an empty script, the sequence and an empty witness; per       *)
(* P2WPKH output the value and the 22-byte script.                         *)

TX_OVERHEAD == 12
TX_INPUT_SIZE == 42
TX_OUTPUT_SIZE == 31

RawSize(nIn, nOut) == TX_OVERHEAD + nIn * TX_INPUT_SIZE + nOut * TX_OUTPUT_SIZE

\* int(tx_size * fee_rate) for a non-negative rate num/den: int() truncates,
\* which is the floor here.  The rates of FeeRates have a power of two as
\* denominator, so float(config['fee_rate']) holds them exactly and the
\* float product with a size of this magnitude is exact as well.
ComputeFeeValue(size, rate) == (size * rate[1]) \div rate[2]

FeeRates == {<<1, 1>>, <<2207, 128>>}

RECURSIVE SumValues(_)
SumValues(s) == IF s = <<>> THEN 0 ELSE Head(s).value + SumValues(Tail(s))

-----------------------------------------------------------------------------
Init ==
    /\ pc = "create_wallet"
    /\ err = "none"
    /\ rawRecords \in SeqsUpTo(RawRecordSet, MaxRecords)
    /\ df = <<>>
    /\ recipients = <<>>
    /\ fee_rate \in FeeRates
    /\ min_utxo = MIN_UTXO
    /\ wallet_address \in {WalletSegwit, WalletOther}
    /\ fetchStatus = 0
    /\ apiUtxos = <<>>
    /\ utxos = <<>>
    /\ inputs = <<>>
    /\ total_input = 0
    /\ outputs = <<>>
    /\ total_output = 0
    /\ nRecipientOutputs = 0
    /\ tx_size = 0
    /\ fee = 0
    /\ change = 0
    /\ signed = <<>>
    /\ verifyResult = "none"
    /\ broadcastCount = 0
    /\ broadcastStatus = 0
    /\ result = "none"

Raise(kind) == pc' = "failed" /\ err' = kind

\* create_wallet_from_wif: the derived address must be P2WPKH.
CreateWallet ==
    /\ pc = "create_wallet"
    /\ IF StartsWith(wallet_address, P2WPKH_PREFIX)
       THEN pc' = "read_excel" /\ err' = err
       ELSE Raise("UnexpectedAddressType")
    /\ UNCHANGED <<rawRecords, df, recipients, fee_rate, min_utxo,
                   wallet_address, fetchStatus, apiUtxos, utxos, inputs,
                   total_input, outputs, total_output, nRecipientOutputs,
                   tx_size, fee, change, signed, verifyResult, broadcastCount,
                   broadcastStatus, result>>

\* read_excel_data: every row is checked; the first bad row raises and
\* nothing is returned.
ReadExcel ==
    /\ pc = "read_excel"
    /\ IF AllRowsOk(rawRecords)
       THEN df' = AsTypeInt(rawRecords) /\ pc' = "prepare" /\ err' = err
       ELSE df' = df /\ Raise("InvalidRecipient")
    /\ UNCHANGED <<rawRecords, recipients, fee_rate, min_utxo, wallet_address,
                   fetchStatus, apiUtxos, utxos, inputs, total_input, outputs,
                   total_output, nRecipientOutputs, tx_size, fee, change,
                   signed, verifyResult, broadcastCount, broadcastStatus,
                   result>>

\* main(): build the recipient list from the validated frame.
Prepare ==
    /\ pc = "prepare"
    /\ IF \E i \in 1..Len(df) : df[i].amount <= 0
       THEN recipients' = recipients /\ Raise("InvalidRecipient")
       ELSE recipients' = PrepareRecipients(df) /\ pc' = "get_utxos" /\ err' = err
    /\ UNCHANGED <<rawRecords, df, fee_rate, min_utxo, wallet_address,
                   fetchStatus, apiUtxos, utxos, inputs, total_input, outputs,
                   total_output, nRecipientOutputs, tx_size, fee, change,
                   signed, verifyResult, broadcastCount, broadcastStatus,
                   result>>

\* The emptiness check left out.
NoUsableUtxos_Never(list) == FALSE

\* `if not utxos`
NoUsableUtxos(list) == list = <<>>

\* send_batch_transaction up to the UTXO check, with get_utxos_from_api: the
\* provider answers with a status and, on 200, a JSON array.
GetUtxos ==
    /\ pc = "get_utxos"
    /\ IF ~StartsWith(wallet_address, P2WPKH_PREFIX)
       THEN /\ Raise("UnexpectedAddressType")
            /\ UNCHANGED <<fetchStatus, apiUtxos, utxos>>
       ELSE \E status \in {HTTP_OK, HTTP_ERROR} :
            \E list \in SeqsUpTo(ApiEntry, MaxUtxos) :
               /\ fetchStatus' = status
               /\ IF status = HTTP_OK
                  THEN /\ apiUtxos' = WithIds(list)
                       /\ utxos' = FilterUtxos(apiUtxos', min_utxo)
                       /\ IF NoUsableUtxos(utxos')
                          THEN Raise("NoSpendableFunds")
                          ELSE pc' = "add_inputs" /\ err' = err
                  ELSE /\ list = <<>>
                       /\ UNCHANGED <<apiUtxos, utxos>>
                       /\ Raise("ProviderError")
    /\ UNCHANGED <<rawRecords, df, recipients, fee_rate, min_utxo,
                   wallet_address, inputs, total_input, outputs, total_output,
                   nRecipientOutputs, tx_size, fee, change, signed,
                   verifyResult, broadcastCount, broadcastStatus, result>>

\* One pass of `for utxo in utxos`, or the loop's exit.
AddInput ==
    /\ pc = "add_inputs"
    /\ IF Len(inputs) < Len(utxos)
       THEN LET utxo == utxos[Len(inputs) + 1]
            IN  IF ~utxo.voutInt
                THEN /\ Raise("InvalidUtxo")
                     /\ UNCHANGED <<inputs, total_input>>
                ELSE /\ inputs' = Append(inputs, utxo)
                     /\ total_input' = total_input + utxo.value
                     /\ UNCHANGED <<pc, err>>
       ELSE /\ pc' = "add_outputs"
            /\ UNCHANGED <<err, inputs, total_input>>
    /\ UNCHANGED <<rawRecords, df, recipients, fee_rate, min_utxo,
                   wallet_address, fetchStatus, apiUtxos, utxos, outputs,
                   total_output, nRecipientOutputs, tx_size, fee, change,
                   signed, verifyResult, broadcastCount, broadcastStatus,
                   result>>

\* One pass of `for record in records`, or the loop's exit.
AddOutput ==
    /\ pc = "add_outputs"
    /\ IF nRecipientOutputs < Len(recipients)
       THEN LET record == recipients[nRecipientOutputs + 1]
            IN  IF ~StartsWith(record.address, P2WPKH_PREFIX)
                THEN /\ Raise("UnsupportedOutputScript")
                     /\ UNCHANGED <<outputs, total_output, nRecipientOutputs>>
                ELSE /\ outputs' = Append(outputs,
                            [value |-> record.amount, address |-> record.address])
                     /\ total_output' = total_output + record.amount
                     /\ nRecipientOutputs' = nRecipientOutputs + 1
                     /\ UNCHANGED <<pc, err>>
       ELSE /\ pc' = "fee"
            /\ UNCHANGED <<err, outputs, total_output, nRecipientOutputs>>
    /\ UNCHANGED <<rawRecords, df, recipients, fee_rate, min_utxo,
                   wallet_address, fetchStatus, apiUtxos, utxos, inputs,
                   total_input, tx_size, fee, change, signed, verifyResult,
                   broadcastCount, broadcastStatus, result>>

\* tx_size = len(t.raw_hex()) // 2; fee = int(tx_size * fee_rate)
ComputeFee ==
    /\ pc = "fee"
    /\ tx_size' = RawSize(Len(inputs), Len(outputs))
    /\ fee' = ComputeFeeValue(tx_size', fee_rate)
    /\ pc' = "change"
    /\ UNCHANGED <<err, rawRecords, df, recipients, fee_rate, min_utxo,
                   wallet_address, fetchStatus, apiUtxos, utxos, inputs,
                   total_input, outputs, total_output, nRecipientOutputs,
                   change, signed, verifyResult, broadcastCount,
                   broadcastStatus, result>>

\* A change output appended for a zero change as well.
ChangeIsAdded_NonNegative(c) == c >= 0

\* `if change > 0`
ChangeIsAdded(c) == c > 0

\* change = total_input - total_output - fee, and the change output.
AddChange ==
    /\ pc = "change"
    /\ change' = total_input - total_output - fee
    /\ outputs' = IF ChangeIsAdded(change')
                  THEN Append(outputs, [value |-> change', address |-> wallet_address])
                  ELSE outputs
    /\ pc' = "sign"
    /\ UNCHANGED <<err, rawRecords, df, recipients, fee_rate, min_utxo,
                   wallet_address, fetchStatus, apiUtxos, utxos, inputs,
                   total_input, total_output, nRecipientOutputs, tx_size, fee,
                   signed, verifyResult, broadcastCount, broadcastStatus,
                   result>>

\* Indices counted from 1.
NextSignIndex_FromOne(done) == done + 1

\* enumerate(utxos): the index of the pass that follows `done` passes.
NextSignIndex(done) == done

\* One pass of `for i, utxo in enumerate(utxos): t.sign(key, i, ...)`, or the
\* loop's exit.  t.sign is a library call: it returns or raises.
SignInput ==
    /\ pc = "sign"
    /\ IF Len(signed) < Len(utxos)
       THEN \E ok \in BOOLEAN :
               IF ok
               THEN /\ signed' = Append(signed, NextSignIndex(Len(signed)))
                    /\ UNCHANGED <<pc, err>>
               ELSE /\ Raise("SigningFailure")
                    /\ UNCHANGED signed
       ELSE /\ pc' = "verify"
            /\ UNCHANGED <<err, signed>>
    /\ UNCHANGED <<rawRecords, df, recipients, fee_rate, min_utxo,
                   wallet_address, fetchStatus, apiUtxos, utxos, inputs,
                   total_input, outputs, total_output, nRecipientOutputs,
                   tx_size, fee, change, verifyResult, broadcastCount,
                   broadcastStatus, result>>

\* The result of t.verify() ignored.
VerifyPassed_Ignored(r) == TRUE

\* `if not t.verify(): raise`
VerifyPassed(r) == r = "ok"

\* t.verify() is a library call returning True or False.
Verify ==
    /\ pc = "verify"
    /\ \E r \in {"ok", "bad"} :
          /\ verifyResult' = r
          /\ IF VerifyPassed(r)
             THEN pc' = "confirm" /\ err' = err
             ELSE Raise("VerificationFailure")
    /\ UNCHANGED <<rawRecords, df, recipients, fee_rate, min_utxo,
                   wallet_address, fetchStatus, apiUtxos, utxos, inputs,
                   total_input, outputs, total_output, nRecipientOutputs,
                   tx_size, fee, change, signed, broadcastCount,
                   broadcastStatus, result>>

\* str.upper() on the answers considered.
Upper(answer) == IF answer = "y" THEN "Y" ELSE IF answer = "n" THEN "N" ELSE answer

\* confirm = input(...); anything but Y/y cancels and returns None.
Confirm ==
    /\ pc = "confirm"
    /\ \E answer \in {"Y", "y", "n", ""} :
          IF Upper(answer) # "Y"
          THEN pc' = "cancelled" /\ result' = "cancelled"
          ELSE pc' = "broadcast" /\ result' = result
    /\ UNCHANGED <<err, rawRecords, df, recipients, fee_rate, min_utxo,
                   wallet_address, fetchStatus, apiUtxos, utxos, inputs,
                   total_input, outputs, total_output, nRecipientOutputs,
                   tx_size, fee, change, signed, verifyResult, broadcastCount,
                   broadcastStatus>>

\* A rejected transaction submitted again.
AfterBroadcast_Retry(status) == IF status = HTTP_OK THEN "done" ELSE "broadcast"

\* Where the run goes on the provider's answer to POST /tx.
AfterBroadcast(status) == IF status = HTTP_OK THEN "done" ELSE "failed"

\* requests.post(...) and the handling of its response.
Broadcast ==
    /\ pc = "broadcast"
    /\ \E status \in {HTTP_OK, HTTP_ERROR} :
          /\ broadcastCount' = broadcastCount + 1
          /\ broadcastStatus' = status
          /\ pc' = AfterBroadcast(status)
          /\ result' = IF status = HTTP_OK THEN "txid" ELSE result
          /\ err' = IF status = HTTP_OK THEN err ELSE "ProviderError"
    /\ UNCHANGED <<rawRecords, df, recipients, fee_rate, min_utxo,
                   wallet_address, fetchStatus, apiUtxos, utxos, inputs,
                   total_input, outputs, total_output, nRecipientOutputs,
                   tx_size, fee, change, signed, verifyResult>>

Next ==
    \/ CreateWallet
    \/ ReadExcel
    \/ Prepare
    \/ GetUtxos
    \/ AddInput
    \/ AddOutput
    \/ ComputeFee
    \/ AddChange
    \/ SignInput
    \/ Verify
    \/ Confirm
    \/ Broadcast

Spec == Init /\ [][Next]_vars
-----------------------------------------------------------------------------
(* Stages of the run, read off pc and err.                                 *)

\* The validation of the sheet has run (it follows create_wallet_from_wif).
Validated ==
    pc \notin {"create_wallet", "read_excel"} /\ err # "UnexpectedAddressType"

\* The build stage (inputs, outputs, fee, change) has completed.
PastBuild ==
    \/ pc \in {"sign", "verify", "confirm", "broadcast", "done", "cancelled"}
    \/ pc = "failed" /\ err \in {"SigningFailure", "VerificationFailure"}
    \/ broadcastCount > 0

\* The input loop has completed.
InputsDone ==
    \/ pc \in {"add_outputs", "fee", "change"}
    \/ pc = "failed" /\ err = "UnsupportedOutputScript"
    \/ PastBuild

RecipientOutputs ==
    [i \in 1..Len(recipients) |->
        [value |-> recipients[i].amount, address |-> recipients[i].address]]

-----------------------------------------------------------------------------
\* C1: once the build stage has completed without raising, the input values
\* sum to the output values (change included) plus the computed fee.
C1_Conservation ==
    PastBuild => SumValues(inputs) = SumValues(outputs) + fee

\* C2: a run with total_input < total_output + fee never gets to signing,
\* verification, the confirmation prompt or the broadcast.
C2_InsufficientFundsStops ==
    (pc \in {"sign", "verify", "confirm", "broadcast", "done", "cancelled"}
        \/ signed # <<>> \/ verifyResult # "none" \/ broadcastCount > 0)
    => total_input >= total_output + fee

\* C3: the broadcast request is issued only after t.verify() returned True
\* with every input signed; a failed verification or any earlier raise ends
\* the run with no broadcast request issued.
C3_VerificationGatesBroadcast ==
    /\ (pc = "broadcast" \/ broadcastCount > 0) =>
           verifyResult = "ok" /\ Len(signed) = Len(inputs)
    /\ verifyResult = "bad" =>
           pc = "failed" /\ err = "VerificationFailure" /\ broadcastCount = 0
    /\ (pc = "failed" /\ err \in {"UnexpectedAddressType", "InvalidRecipient",
                                  "NoSpendableFunds", "InvalidUtxo",
                                  "UnsupportedOutputScript", "SigningFailure",
                                  "VerificationFailure"}) =>
           broadcastCount = 0 /\ broadcastStatus = 0
    /\ (pc = "failed" /\ err = "ProviderError" /\ fetchStatus # HTTP_OK) =>
           broadcastCount = 0

C3_Witness ==
    pc = "done" /\ broadcastCount = 1 /\ verifyResult = "ok" /\ Len(inputs) = 2

\* C4: when the provider's list is empty, or holds only UTXOs below the
\* threshold, the run fails with NoSpendableFunds with no input added, no
\* signature made and no broadcast attempted.
C4_ZeroUtxoFails ==
    (fetchStatus = HTTP_OK
        /\ \A i \in 1..Len(apiUtxos) : apiUtxos[i].value < min_utxo)
    => /\ pc = "failed"
       /\ err = "NoSpendableFunds"
       /\ inputs = <<>>
       /\ signed = <<>>
       /\ broadcastCount = 0

C4_Witness ==
    /\ fetchStatus = HTTP_OK
    /\ apiUtxos = <<>>
    /\ pc = "failed"
    /\ err = "NoSpendableFunds"

\* C5: the sheet is accepted (and returned whole, in order) if and only if
\* every row's address starts with bc1q and every row's amount is an integer
\* of at least 546; otherwise the whole batch is rejected.
C5_ValidationIff ==
    Validated =>
        ((err # "InvalidRecipient") <=>
            \A i \in 1..Len(rawRecords) :
                /\ StartsWith(Strip(rawRecords[i].address), P2WPKH_PREFIX)
                /\ IsIntegerCell(rawRecords[i].amount)
                /\ rawRecords[i].amount.num \div rawRecords[i].amount.den >= 546)

\* C6: the fee is floor(size * rate) for the size of the final transaction,
\* the change output included when there is one.
C6_FeeOfFinalSize ==
    PastBuild =>
        fee = (RawSize(Len(inputs), Len(outputs)) * fee_rate[1]) \div fee_rate[2]

\* C7: with c = total_input - total_output - fee, the built transaction
\* carries a change output iff c > 0; it is then the last output, pays the
\* funding address and is worth exactly c (1..545 included); with c = 0 the
\* outputs are the recipient outputs.  100000 in, 20000 and 30000 out with a
\* fee of 2000 gives a trailing change output of 48000.
C7_ChangeRule ==
    PastBuild =>
        LET c == total_input - total_output - fee
        IN  /\ change = c
            /\ c > 0 => outputs = Append(RecipientOutputs,
                                         [value |-> c, address |-> wallet_address])
            /\ c = 0 => outputs = RecipientOutputs
            /\ (Len(outputs) = Len(RecipientOutputs) + 1) <=> c > 0
            /\ (total_input = 100000 /\ total_output = 50000 /\ fee = 2000) =>
                   outputs[Len(outputs)] =
                       [value |-> 48000, address |-> wallet_address]

C7_Witness ==
    /\ PastBuild
    /\ total_input = 100000
    /\ RecipientOutputs = <<[value |-> 20000, address |-> AddrSegwit],
                            [value |-> 30000, address |-> AddrSegwit]>>
    /\ fee = 2000
    /\ Len(outputs) = 3
    /\ outputs[3] = [value |-> 48000, address |-> wallet_address]

\* The state part of C8.
C8_StateInv ==
    /\ \A k \in 1..Len(signed) : signed[k] = k - 1
    /\ Len(signed) <= Len(inputs)
    /\ signed # <<>> =>
          /\ nRecipientOutputs = Len(recipients)
          /\ outputs = IF change > 0
                       THEN Append(RecipientOutputs,
                                   [value |-> change, address |-> wallet_address])
                       ELSE RecipientOutputs
    /\ (pc \in {"verify", "confirm", "broadcast", "done", "cancelled"}
            \/ verifyResult # "none") => Len(signed) = Len(inputs)

\* C8: no signature is made before the output set is final, no output is
\* added or changed once a signature exists, inputs are signed once each in
\* the order 0..n-1, and verification starts with every input signed.
C8_SigningOrder ==
    /\ []C8_StateInv
    /\ [][signed # <<>> => outputs' = outputs /\ inputs' = inputs]_vars

C8_Witness ==
    pc = "verify" /\ signed = <<0, 1>> /\ Len(inputs) = 2 /\ Len(outputs) = 3

\* The state part of C9.
C9_StateInv ==
    /\ broadcastCount <= 1
    /\ broadcastStatus \notin {0, HTTP_OK} =>
           pc = "failed" /\ err = "ProviderError" /\ broadcastCount = 1
    /\ fetchStatus \notin {0, HTTP_OK} =>
           /\ pc = "failed"
           /\ err = "ProviderError"
           /\ inputs = <<>>
           /\ outputs = <<>>
           /\ signed = <<>>
           /\ broadcastCount = 0

\* C9: at most one broadcast request is issued in a run; a non-200 answer to
\* it ends the run with an error, nothing is resubmitted or rebuilt; a
\* non-200 answer to the UTXO fetch ends the run before anything is built.
C9_ProviderFailureTerminal ==
    /\ []C9_StateInv
    /\ [][(broadcastStatus \notin {0, HTTP_OK} \/ fetchStatus \notin {0, HTTP_OK})
            => UNCHANGED vars]_vars

C9_Witness ==
    /\ broadcastStatus = HTTP_ERROR
    /\ broadcastCount = 1
    /\ pc = "failed"
    /\ fetchStatus = HTTP_OK

\* C10: once the input loop has completed, the inputs are exactly the
\* provider's UTXOs worth at least the threshold, each once, in provider
\* order, and total_input is the sum of their values.
C10_InputsAreEligibleUtxos ==
    InputsDone =>
        /\ \A k \in 1..Len(inputs) :
              /\ inputs[k].id \in 1..Len(apiUtxos)
              /\ inputs[k] = apiUtxos[inputs[k].id]
              /\ inputs[k].value >= min_utxo
        /\ \A j, k \in 1..Len(inputs) : j < k => inputs[j].id < inputs[k].id
        /\ \A i \in 1..Len(apiUtxos) :
              apiUtxos[i].value >= min_utxo =>
                  \E k \in 1..Len(inputs) : inputs[k].id = i
        /\ total_input = SumValues(inputs)

C10_Witness ==
    /\ InputsDone
    /\ Len(apiUtxos) = 2
    /\ apiUtxos[1].value < min_utxo
    /\ apiUtxos[2].value = min_utxo
    /\ Len(inputs) = 1
    /\ inputs[1].id = 2
====
